---- MODULE Spec2Model ----
(***************************************************************************)
(* Model of src/builder.rs: the call-data Builder.                         *)
(*                                                                         *)
(* A caller owns one Builder, calls name()/add*() on it (each call moves   *)
(* the builder in and, when it returns normally, hands it back), may call  *)
(* signature() on a borrow of it, and finally calls build(), which         *)
(* consumes it.  build() is modelled in the order of its code: the         *)
(* prologue (name_offset, sig, total_len, allocation, tail cursor), one    *)
(* step per iteration of the layout loop, and the selector insertion plus  *)
(* return.  A Rust panic aborts the call and is recorded in `outcome` and  *)
(* `panic_at`.                                                             *)
(*                                                                         *)
(* Strings and byte sequences are sequences of naturals (UTF-8 codes,      *)
(* bytes).  Slice positions are 0-based as in the code; a sequence index   *)
(* is the slice position plus one.                                         *)
(***************************************************************************)
EXTENDS Naturals, Sequences, FiniteSets, TLC

VARIABLES
    name,         \* Builder.name : Option<String>
    params,       \* Builder.params : Vec<ConcreteSolidityType>
    owned,        \* the caller still owns the builder (it was not moved away)
    last_op,      \* the last call the caller made, with its argument
    outcome,      \* how that call ended: "none", "ok", "err", "panic", "running"
    panic_at,     \* the place of the panic, "" if none
    ret,          \* the [u8; 4] the last signature() returned, <<>> if none
    pc,           \* "caller" | "layout" | "done" | "panicked"
    name_offset,  \* build(): local name_offset
    sig,          \* build(): local sig : Option<[u8; 4]>
    buf,          \* build(): local buf, and the Vec<u8> build() returns
    offset,       \* build(): local offset, the tail write cursor
    index         \* build(): the enumerate() index of the layout loop

vars == << name, params, owned, last_op, outcome, panic_at, ret, pc,
           name_offset, sig, buf, offset, index >>

build_locals == << name_offset, sig, buf, offset, index >>

-----------------------------------------------------------------------------
(* Bounds of the model *)

\* The longest parameter list a builder accumulates.
MaxParams == 3

-----------------------------------------------------------------------------
(* Sequences of bytes *)

\* vec![0; n]
Zeros(n) == [i \in 1..n |-> 0]

\* n as `len` big-endian bytes (the low `len` bytes of n).
RECURSIVE ToBE(_, _)
ToBE(n, len) == IF len = 0 THEN <<>> ELSE Append(ToBE(n \div 256, len - 1), n % 256)

\* s[from..to] of Rust: positions from (inclusive) to `to` (exclusive), 0-based.
Slice(s, from, to) == SubSeq(s, from + 1, to)

\* Whether s[from..to] is a valid range of s (Rust panics otherwise).
InRange(s, from, to) == from <= to /\ to <= Len(s)

\* s with the positions start .. start+Len(bytes) overwritten by bytes.
WriteAt(s, start, bytes) ==
    [i \in 1..Len(s) |->
        IF i > start /\ i <= start + Len(bytes) THEN bytes[i - start] ELSE s[i]]

RECURSIVE Concat(_)
Concat(ss) == IF ss = <<>> THEN <<>> ELSE Head(ss) \o Concat(Tail(ss))

\* [T]::join(sep) of a sequence of strings.
RECURSIVE Join(_, _)
Join(ss, sep) ==
    IF ss = <<>> THEN <<>>
    ELSE IF Len(ss) = 1 THEN Head(ss)
    ELSE Head(ss) \o sep \o Join(Tail(ss), sep)

\* The UTF-8 code of a character of the strings the model uses.
CharCode ==
    [c \in {"a","b","c","d","e","f","g","h","i","n","o","r","s","t","u","y",
            "1","2","5","6","8","(",")",",","[","]"} |->
        CASE c = "a" -> 97  [] c = "b" -> 98  [] c = "c" -> 99  [] c = "d" -> 100
          [] c = "e" -> 101 [] c = "f" -> 102 [] c = "g" -> 103 [] c = "h" -> 104
          [] c = "i" -> 105 [] c = "n" -> 110 [] c = "o" -> 111 [] c = "r" -> 114
          [] c = "s" -> 115 [] c = "t" -> 116 [] c = "u" -> 117 [] c = "y" -> 121
          [] c = "1" -> 49  [] c = "2" -> 50  [] c = "5" -> 53  [] c = "6" -> 54
          [] c = "8" -> 56  [] c = "(" -> 40  [] c = ")" -> 41  [] c = "," -> 44
          [] c = "[" -> 91  [] c = "]" -> 93]

\* A string literal, given by its characters, as its UTF-8 bytes.
Str(chars) == [i \in 1..Len(chars) |-> CharCode[chars[i]]]

-----------------------------------------------------------------------------
(* The Type Model (crate::solidity), the builder's collaborator.  Its code  *)
(* is not in builder.rs; it is modelled from its documented interface:     *)
(* every static value encodes to one 32-byte word, required_byte_len is    *)
(* the length of the encoded bytes.                                        *)
(* A ConcreteSolidityType is [ty, dimensions, value]: the SolidityType     *)
(* tag, 0 for a scalar and 1 for a SolidityArray of dimensions 1, and the  *)
(* value: a number's single entry, a string's or byte sequence's bytes,    *)
(* and for an array of numbers one entry per element.                      *)

WordLen == 32

Scalar(ty, value) == [ty |-> ty, dimensions |-> 0, value |-> value]

Array(ty, value) == [ty |-> ty, dimensions |-> 1, value |-> value]

\* SolidityType's canonical name.
type_name(ty) ==
    CASE ty = "U8"       -> Str(<<"u","i","n","t","8">>)
      [] ty = "U256"     -> Str(<<"u","i","n","t","2","5","6">>)
      [] ty = "Address"  -> Str(<<"a","d","d","r","e","s","s">>)
      [] ty = "Function" -> Str(<<"f","u","n","c","t","i","o","n">>)
      [] ty = "String"   -> Str(<<"s","t","r","i","n","g">>)
      [] ty = "Bytes"    -> Str(<<"b","y","t","e","s">>)

\* ConcreteSolidityType::to_string
to_string(p) ==
    IF p.dimensions = 0 THEN type_name(p.ty)
    ELSE type_name(p.ty) \o Str(<<"[","]">>)

\* ConcreteSolidityType::is_dynamic
is_dynamic(p) == p.dimensions > 0 \/ p.ty \in {"String", "Bytes"}

\* Bytes padded with zeros on the right to a multiple of the word.
PadRight(b) == b \o Zeros((WordLen - (Len(b) % WordLen)) % WordLen)

\* The encoding of a static scalar: one word.
EncodeWord(ty, value) ==
    CASE ty = "U8"       -> ToBE(value[1], WordLen)
      [] ty = "U256"     -> value
      [] ty = "Address"  -> Zeros(WordLen - Len(value)) \o value
      [] ty = "Function" -> PadRight(value)

\* The encoded bytes of a value: a word for a static scalar; the length word and
\* the padded data for a string or a byte sequence; the length word and one word
\* per element for an array of numbers.
encoded_bytes(p) ==
    IF p.dimensions > 0
    THEN ToBE(Len(p.value), WordLen)
         \o Concat([i \in 1..Len(p.value) |-> EncodeWord(p.ty, << p.value[i] >>)])
    ELSE IF p.ty \in {"String", "Bytes"}
    THEN ToBE(Len(p.value), WordLen) \o PadRight(p.value)
    ELSE EncodeWord(p.ty, p.value)

\* ConcreteSolidityType::to_bytes -> (is_dynamic, bytes)
to_bytes(p) == << is_dynamic(p), encoded_bytes(p) >>

\* ConcreteSolidityType::required_byte_len
required_byte_len(p) == Len(encoded_bytes(p))

\* TryInto<Address>: 20 bytes convert, anything else is an error.
try_into_address(value) ==
    IF Len(value) = 20 THEN [ok |-> TRUE, v |-> value] ELSE [ok |-> FALSE, v |-> <<>>]

\* TryInto<Function>: 24 bytes (address and selector) convert.
try_into_function(value) ==
    IF Len(value) = 24 THEN [ok |-> TRUE, v |-> value] ELSE [ok |-> FALSE, v |-> <<>>]

-----------------------------------------------------------------------------
(* Keccak256 of the sha3 crate, abstracted: a deterministic 32-byte digest *)
(* of the message (a polynomial mix of its bytes, one per digest byte).    *)

RECURSIVE Mix(_, _)
Mix(msg, k) ==
    IF msg = <<>> THEN k
    ELSE (Mix(SubSeq(msg, 1, Len(msg) - 1), k) * 31 + msg[Len(msg)] + k) % 256

Keccak256(msg) == [k \in 1..32 |-> Mix(msg, k)]

-----------------------------------------------------------------------------
(* The inputs the caller passes *)

NoName == [is_some |-> FALSE, v |-> <<>>]

Some(s) == [is_some |-> TRUE, v |-> s]

Names == { Str(<<"t","r","a","n","s","f","e","r">>) }

Block32 == [i \in 1..32 |-> 160 + i]

Addr20 == [i \in 1..20 |-> 16 + i]

Fn24 == [i \in 1..24 |-> 64 + i]

\* The (type, value) pairs given to the macro-generated add_<type>.
ScalarInputs ==
    { [ty |-> "U256",  value |-> Block32],
      [ty |-> "Bytes", value |-> << 1, 2, 3 >>] }

\* The (type, elements) pairs given to the macro-generated add_<type>_array.
ArrayInputs ==
    { [ty |-> "U8", value |-> << 1, 2 >>] }

\* The values given to add(): anything with an IntoType implementation.
IntoTypeInputs == { [ty |-> "String", value |-> Str(<<"h","i">>)] }

\* The source values given to add_address: a well-formed one and a malformed one.
AddressSources == { Addr20, << 1, 2, 3 >> }

\* The source values given to add_function.
FunctionSources == { Fn24, << 9 >> }

Op(op, ty, value) == [op |-> op, ty |-> ty, value |-> value]

-----------------------------------------------------------------------------
(* Builder *)

\* Builder::new
Init ==
    /\ name = NoName
    /\ params = <<>>
    /\ owned = TRUE
    /\ last_op = Op("new", "", <<>>)
    /\ outcome = "none"
    /\ panic_at = ""
    /\ ret = <<>>
    /\ pc = "caller"
    /\ name_offset = 0
    /\ sig = [is_some |-> FALSE, v |-> <<>>]
    /\ buf = <<>>
    /\ offset = 0
    /\ index = 0

\* The caller can make a call on the builder it owns.
CanCall == pc = "caller" /\ owned

\* A variant of push that inserts at the front of the list.
push_front(ps, p) == << p >> \o ps

\* Vec::push
push(ps, p) == Append(ps, p)

\* Builder::name
Name ==
    /\ CanCall
    /\ \E n \in Names :
        /\ name' = Some(n)
        /\ last_op' = Op("name", "", n)
    /\ outcome' = "ok"
    /\ UNCHANGED << params, owned, panic_at, ret, pc, build_locals >>

\* Builder::add
Add ==
    /\ CanCall
    /\ Len(params) < MaxParams
    /\ \E x \in IntoTypeInputs :
        /\ params' = push(params, Scalar(x.ty, x.value))
        /\ last_op' = Op("add", x.ty, x.value)
    /\ outcome' = "ok"
    /\ UNCHANGED << name, owned, panic_at, ret, pc, build_locals >>

\* Builder::add_address
AddAddress ==
    /\ CanCall
    /\ Len(params) < MaxParams
    /\ \E value \in AddressSources :
        LET address == try_into_address(value) IN
        /\ last_op' = Op("add_address", "Address", value)
        /\ IF address.ok
           THEN /\ params' = push(params, Scalar("Address", address.v))
                /\ outcome' = "ok"
                /\ owned' = TRUE
           ELSE \* `?` returns Err(e): self is not handed back, it is dropped
                /\ params' = params
                /\ outcome' = "err"
                /\ owned' = FALSE
    /\ UNCHANGED << name, panic_at, ret, pc, build_locals >>

\* Builder::add_function
AddFunction ==
    /\ CanCall
    /\ Len(params) < MaxParams
    /\ \E value \in FunctionSources :
        LET function == try_into_function(value) IN
        /\ last_op' = Op("add_function", "Function", value)
        /\ IF function.ok
           THEN /\ params' = push(params, Scalar("Function", function.v))
                /\ outcome' = "ok"
                /\ owned' = TRUE
           ELSE /\ params' = params
                /\ outcome' = "err"
                /\ owned' = FALSE
    /\ UNCHANGED << name, panic_at, ret, pc, build_locals >>

\* impl_solidity_function_for_builder: $function
AddScalar ==
    /\ CanCall
    /\ Len(params) < MaxParams
    /\ \E x \in ScalarInputs :
        /\ params' = push(params, Scalar(x.ty, x.value))
        /\ last_op' = Op("add_scalar", x.ty, x.value)
    /\ outcome' = "ok"
    /\ UNCHANGED << name, owned, panic_at, ret, pc, build_locals >>

\* impl_solidity_function_for_builder: $array
AddArray ==
    /\ CanCall
    /\ Len(params) < MaxParams
    /\ \E x \in ArrayInputs :
        /\ params' = push(params, Array(x.ty, x.value))
        /\ last_op' = Op("add_array", x.ty, x.value)
    /\ outcome' = "ok"
    /\ UNCHANGED << name, owned, panic_at, ret, pc, build_locals >>

-----------------------------------------------------------------------------
(* Builder::signature *)

SelectorLen == 4

\* [T]::copy_from_slice: panics unless the two slices have the same length.
copy_from_slice(dst, src) ==
    IF Len(dst) = Len(src) THEN [ok |-> TRUE, v |-> src] ELSE [ok |-> FALSE, v |-> dst]

\* format!("{}({})", name, types.join(","))
signature_string(n, ps) ==
    n \o Str(<<"(">>)
      \o Join([i \in 1..Len(ps) |-> to_string(ps[i])], Str(<<",">>))
      \o Str(<<")">>)

\* A variant of signature that returns a zero selector when no name is set.
signature_lenient(n, ps) ==
    IF n.is_some
    THEN [ok |-> FALSE, v |-> <<>>, at |-> "signature: copy_from_slice"]
    ELSE [ok |-> TRUE, v |-> Zeros(SelectorLen), at |-> ""]

\* The body of Builder::signature: the value returned, or the place of the panic.
signature(n, ps) ==
    IF n.is_some
    THEN LET function == signature_string(n.v, ps)
             result == Keccak256(function)
             copied == copy_from_slice(Zeros(SelectorLen), result)
         IN IF copied.ok
            THEN [ok |-> TRUE, v |-> copied.v, at |-> ""]
            ELSE [ok |-> FALSE, v |-> <<>>, at |-> "signature: copy_from_slice"]
    ELSE [ok |-> FALSE, v |-> <<>>, at |-> "signature: no name"]

\* The caller calls signature(&self).
Signature ==
    /\ CanCall
    /\ LET s == signature(name, params) IN
        /\ ret' = s.v
        /\ outcome' = IF s.ok THEN "ok" ELSE "panic"
        /\ panic_at' = s.at
        /\ pc' = IF s.ok THEN "caller" ELSE "panicked"
    /\ last_op' = Op("signature", "", <<>>)
    /\ UNCHANGED << name, params, owned, build_locals >>

-----------------------------------------------------------------------------
(* Builder::build *)

\* A variant of total_len that counts only the head slot of a dynamic parameter.
RECURSIVE total_len_heads_only(_)
total_len_heads_only(ps) ==
    IF ps = <<>> THEN 0
    ELSE LET sum == total_len_heads_only(SubSeq(ps, 1, Len(ps) - 1))
             len == required_byte_len(ps[Len(ps)])
             dynamic == is_dynamic(ps[Len(ps)])
         IN IF dynamic THEN 32 + sum ELSE sum + len

\* The fold of build(): 32 + len for a dynamic parameter, len for a static one.
RECURSIVE total_len(_)
total_len(ps) ==
    IF ps = <<>> THEN 0
    ELSE LET sum == total_len(SubSeq(ps, 1, Len(ps) - 1))
             len == required_byte_len(ps[Len(ps)])
             dynamic == is_dynamic(ps[Len(ps)])
         IN IF dynamic THEN 32 + sum + len ELSE sum + len

\* A variant of tail_start that skips one more slot than there are parameters.
tail_start_one_more(n, no) == (n + 1) * 32 + no

\* The start of the tail region: the first value of `offset`.
tail_start(n, no) == n * 32 + no

\* A variant of head_start that is one slot too far.
head_start_next(i, no) == (i + 1) * 32 + no

\* The start of the head slot of the parameter at `i`.
head_start(i, no) == i * 32 + no

\* A variant of write_u64 that writes the bytes in little-endian order.
write_u64_le(n) == [k \in 1..8 |-> ToBE(n, 8)[9 - k]]

\* BigEndian::write_u64 into a slice of 8 bytes.
write_u64(n) == ToBE(n, 8)

\* build() up to the layout loop: name_offset, sig, total_len, the allocation
\* and the tail cursor.  self is moved into the call.
BuildBegin ==
    /\ CanCall
    /\ last_op' = Op("build", "", <<>>)
    /\ owned' = FALSE
    /\ LET no == IF name.is_some THEN 4 ELSE 0
           s  == IF name.is_some
                 THEN signature(name, params)
                 ELSE [ok |-> TRUE, v |-> <<>>, at |-> ""]
       IN IF ~s.ok
          THEN /\ pc' = "panicked"
               /\ outcome' = "panic"
               /\ panic_at' = s.at
               /\ UNCHANGED build_locals
          ELSE /\ pc' = "layout"
               /\ outcome' = "running"
               /\ panic_at' = ""
               /\ name_offset' = no
               /\ sig' = [is_some |-> name.is_some, v |-> s.v]
               /\ buf' = Zeros(total_len(params) + no)
               /\ offset' = tail_start(Len(params), no)
               /\ index' = 0
    /\ UNCHANGED << name, params, ret >>

\* One iteration of the layout loop, for the parameter at `index`.
BuildLayout ==
    /\ pc = "layout"
    /\ index < Len(params)
    /\ LET tb      == to_bytes(params[index + 1])
           dynamic == tb[1]
           bytes   == tb[2]
           from    == head_start(index, name_offset)
           to      == head_start(index + 1, name_offset)
           headOk  == IF dynamic THEN InRange(buf, from + 24, to)
                                 ELSE InRange(buf, from, to)
           withHead == WriteAt(buf, from + 24, write_u64(offset))
           tailOk  == InRange(buf, offset, offset + Len(bytes))
           copied  == copy_from_slice(Slice(buf, from, to), bytes)
           at      == IF ~headOk THEN "layout: head slot out of range"
                      ELSE IF dynamic /\ ~tailOk THEN "layout: tail out of range"
                      ELSE IF ~dynamic /\ ~copied.ok THEN "layout: copy_from_slice"
                      ELSE ""
       IN IF at # ""
          THEN /\ pc' = "panicked"
               /\ outcome' = "panic"
               /\ panic_at' = at
               /\ UNCHANGED << buf, offset, index >>
          ELSE /\ buf' = IF dynamic THEN WriteAt(withHead, offset, bytes)
                                    ELSE WriteAt(buf, from, copied.v)
               /\ offset' = IF dynamic THEN offset + Len(bytes) ELSE offset
               /\ index' = index + 1
               /\ UNCHANGED << pc, outcome, panic_at >>
    /\ UNCHANGED << name, params, owned, last_op, ret, name_offset, sig >>

\* After the loop: the selector is copied into buf and buf is returned.
BuildFinish ==
    /\ pc = "layout"
    /\ index = Len(params)
    /\ LET copied == IF sig.is_some THEN copy_from_slice(buf, sig.v)
                                    ELSE [ok |-> TRUE, v |-> buf]
       IN IF copied.ok
          THEN /\ buf' = copied.v
               /\ pc' = "done"
               /\ outcome' = "ok"
               /\ panic_at' = ""
          ELSE /\ buf' = buf
               /\ pc' = "panicked"
               /\ outcome' = "panic"
               /\ panic_at' = "build: copy_from_slice"
    /\ UNCHANGED << name, params, owned, last_op, ret, name_offset, sig, offset, index >>

-----------------------------------------------------------------------------

Next ==
    \/ Name
    \/ Add
    \/ AddAddress
    \/ AddFunction
    \/ AddScalar
    \/ AddArray
    \/ Signature
    \/ BuildBegin
    \/ BuildLayout
    \/ BuildFinish

Spec == Init /\ [][Next]_vars

-----------------------------------------------------------------------------
(* Helpers of the properties: the layout as the specification words it,    *)
(* computed from the parameter list alone.                                 *)

\* 4 if a name is set, else 0.
NameOff == IF name.is_some THEN 4 ELSE 0

\* The indexes (1-based) of the dynamic / static parameters.
DynamicIx == { i \in 1..Len(params) : is_dynamic(params[i]) }

StaticIx == { i \in 1..Len(params) : ~is_dynamic(params[i]) }

\* The sum of the payload lengths of the dynamic parameters among the first k.
RECURSIVE PayloadBefore(_)
PayloadBefore(k) ==
    IF k = 0 THEN 0
    ELSE PayloadBefore(k - 1)
         + (IF is_dynamic(params[k]) THEN Len(encoded_bytes(params[k])) ELSE 0)

\* The number of dynamic parameters among the first k.
DynamicBefore(k) == Cardinality({ i \in DynamicIx : i <= k })

\* The head slot of the parameter at 1-based index i, as the bytes of buf.
HeadSlot(i) == Slice(buf, (i - 1) * 32 + NameOff, i * 32 + NameOff)

\* build() returned its buffer.
Returned == pc = "done" /\ last_op.op = "build" /\ outcome = "ok"

\* The buffer exists: build() is in its layout loop or has returned.
Allocated == pc \in {"layout", "done"}

LayoutPanics ==
    { "layout: head slot out of range", "layout: tail out of range",
      "layout: copy_from_slice" }

-----------------------------------------------------------------------------
(* C1 *)

\* C1: on every builder with a name set, signature() returns normally and its
\* result is the first 4 bytes of Keccak-256 of name(type1,type2,...).
C1_SignatureReturnsSelector ==
    (last_op.op = "signature" /\ name.is_some) =>
        /\ outcome = "ok"
        /\ ret = SubSeq(Keccak256(signature_string(name.v, params)), 1, 4)

-----------------------------------------------------------------------------
(* C2 *)

\* C2: build() cannot fail: on every builder reachable by name() and successful
\* add* calls it runs to completion and never aborts.
C2_BuildNeverPanics ==
    last_op.op = "build" => outcome # "panic"

-----------------------------------------------------------------------------
(* C3 *)

\* C3 as stated: the head slot of a dynamic parameter holds params.len()*32 +
\* name_offset + the payload lengths of the dynamic parameters before it + 32 for
\* each dynamic parameter before it, and the payload is at that offset.
C3_OffsetCountsPriorHeads ==
    Returned =>
        \A i \in DynamicIx :
            LET at == Len(params) * 32 + NameOff + PayloadBefore(i - 1)
                      + 32 * DynamicBefore(i - 1)
                bytes == encoded_bytes(params[i])
            IN /\ HeadSlot(i) = ToBE(at, 32)
               /\ at + Len(bytes) <= Len(buf)
               /\ Slice(buf, at, at + Len(bytes)) = bytes

\* C3 amended: the head slot of a dynamic parameter holds, big-endian,
\* params.len()*32 + name_offset + the payload lengths of the dynamic parameters
\* before it (nothing more), and the buffer holds the payload at that offset.
C3_DynamicHeadAndTail ==
    Returned =>
        \A i \in DynamicIx :
            LET at == Len(params) * 32 + NameOff + PayloadBefore(i - 1)
                bytes == encoded_bytes(params[i])
            IN /\ HeadSlot(i) = ToBE(at, 32)
               /\ at + Len(bytes) <= Len(buf)
               /\ Slice(buf, at, at + Len(bytes)) = bytes

\* A buffer was returned for a list with two dynamic parameters and a static one.
C3_Witness ==
    /\ Returned
    /\ Cardinality(DynamicIx) >= 2
    /\ StaticIx # {}

-----------------------------------------------------------------------------
(* C4 *)

\* C4: the head slot of a static parameter equals its encoded bytes, from the
\* iteration that writes it to the returned buffer, whatever precedes or follows.
C4_StaticHeadSlot ==
    Allocated =>
        \A i \in StaticIx :
            (pc = "done" \/ i <= index) => HeadSlot(i) = encoded_bytes(params[i])

\* A buffer was returned for a static parameter between two dynamic ones.
C4_Witness ==
    /\ Returned
    /\ \E i \in StaticIx : (i - 1) \in DynamicIx /\ (i + 1) \in DynamicIx

-----------------------------------------------------------------------------
(* C5 *)

\* C5: with a name set and at least one parameter, build() returns a buffer
\* longer than 4 bytes whose first 4 bytes are the selector and whose other bytes
\* are the head slots and tail payloads the layout loop wrote.
C5_SelectorOverwritesPrefixOnly ==
    (last_op.op = "build" /\ name.is_some /\ Len(params) > 0
                          /\ pc \in {"done", "panicked"}) =>
        /\ pc = "done"
        /\ Len(buf) > 4
        /\ SubSeq(buf, 1, 4)
             = SubSeq(Keccak256(signature_string(name.v, params)), 1, 4)
        /\ \A i \in StaticIx : HeadSlot(i) = encoded_bytes(params[i])

-----------------------------------------------------------------------------
(* C6 *)

\* The length C6 states: 32 for a dynamic parameter, its width for a static one.
RECURSIVE SlotsOnlyLen(_)
SlotsOnlyLen(k) ==
    IF k = 0 THEN 0
    ELSE SlotsOnlyLen(k - 1)
         + (IF is_dynamic(params[k]) THEN 32 ELSE required_byte_len(params[k]))

\* C6 as stated: the returned buffer's length is name_offset + the sum of 32 for
\* each dynamic parameter and static_width for each static one.
C6_LengthCountsSlotsOnly ==
    Returned => Len(buf) = NameOff + SlotsOnlyLen(Len(params))

\* C6 amended: the buffer's length, from its allocation on, is name_offset + the
\* sum of (32 + payload length) for each dynamic parameter and static_width for
\* each static one; the empty nameless builder yields the empty buffer.
C6_BufferLength ==
    Allocated =>
        /\ Len(buf) = NameOff + SlotsOnlyLen(Len(params)) + PayloadBefore(Len(params))
        /\ (params = <<>> /\ ~name.is_some) => buf = <<>>

\* A buffer was returned for a list with a dynamic and a static parameter.
C6_Witness ==
    /\ Returned
    /\ DynamicIx # {}
    /\ StaticIx # {}

-----------------------------------------------------------------------------
(* C7 *)

\* C7: after add_address or add_function returned the conversion error, the
\* caller still has its builder, unmodified, and can go on calling it.
C7_BuilderUsableAfterError ==
    (last_op.op \in {"add_address", "add_function"} /\ outcome = "err") =>
        /\ owned
        /\ pc = "caller"

-----------------------------------------------------------------------------
(* C8 *)

\* C8: signature() on a builder without a name aborts and returns nothing, for
\* every parameter list; and the abort for a missing name never comes out of
\* build(), which derives no selector when no name is set.
C8_SignatureNeedsName ==
    /\ (last_op.op = "signature" /\ ~name.is_some) =>
          /\ outcome = "panic"
          /\ pc = "panicked"
          /\ panic_at = "signature: no name"
          /\ ret = <<>>
    /\ last_op.op = "build" => panic_at # "signature: no name"
    /\ (last_op.op = "build" /\ ~name.is_some /\ Allocated) => ~sig.is_some

\* signature() was called on a nameless builder holding two parameters.
C8_Witness ==
    /\ last_op.op = "signature"
    /\ ~name.is_some
    /\ Len(params) = 2
    /\ outcome = "panic"

-----------------------------------------------------------------------------
(* C9 *)

\* C9: the parameter list is append-only.  A successful add, add_<type>,
\* add_address or add_function appends exactly the added value at the end; an
\* add_<type>_array appends one array parameter; name() leaves the list
\* unchanged; every add leaves the name unchanged; signature() changes neither.
C9_AppendOnly ==
    [][ pc = "caller" =>
          LET op == last_op'.op
              scalar == [ty |-> last_op'.ty, dimensions |-> 0, value |-> last_op'.value]
              array  == [ty |-> last_op'.ty, dimensions |-> 1, value |-> last_op'.value]
          IN /\ op = "name" => params' = params /\ name' = [is_some |-> TRUE, v |-> last_op'.value]
             /\ op \in {"add", "add_scalar"} =>
                    params' = Append(params, scalar) /\ name' = name
             /\ op = "add_array" =>
                    params' = Append(params, array) /\ name' = name
             /\ (op \in {"add_address", "add_function"} /\ outcome' = "ok") =>
                    params' = Append(params, scalar) /\ name' = name
             /\ op = "signature" => params' = params /\ name' = name
      ]_vars

\* An array was added as the third parameter of a named builder.
C9_Witness ==
    /\ last_op.op = "add_array"
    /\ outcome = "ok"
    /\ name.is_some
    /\ Len(params) = 3
    /\ params[3].dimensions = 1

-----------------------------------------------------------------------------
(* C10 *)

\* C10: the buffer has the exact size the layout needs.  No head or tail write
\* of the layout loop falls outside it; the tail cursor starts right after the
\* head slots, moves by the payload of each dynamic parameter laid out (so the
\* payloads are contiguous, in order, and past every head slot), never passes
\* the end of the buffer, and is the buffer's length after the last parameter.
\* A nameless builder with one 3-byte byte sequence yields 32 (head slot) + 32
\* (length word) + the length of the 3 bytes padded to the word boundary, with
\* 32 in the head slot.
C10_ExactAllocation ==
    /\ panic_at \notin LayoutPanics
    /\ Allocated =>
          /\ index <= Len(params)
          /\ offset = Len(params) * 32 + NameOff + PayloadBefore(index)
          /\ offset <= Len(buf)
          /\ index = Len(params) => offset = Len(buf)
    /\ (Returned /\ ~name.is_some
          /\ params = << [ty |-> "Bytes", dimensions |-> 0, value |-> << 1, 2, 3 >>] >>) =>
          /\ Len(buf) = 32 + 32 + Len(PadRight(params[1].value))
          /\ HeadSlot(1) = ToBE(32, 32)

\* The layout loop is past two dynamic parameters with one more to go.
C10_Witness ==
    /\ pc = "layout"
    /\ index < Len(params)
    /\ DynamicBefore(index) >= 2

====
